---- MODULE Spec2Model ----
(***************************************************************************)
(* Model of src/demo_dpm.py: the Gibbs sampler (Neal's Algorithm 3) of a   *)
(* Dirichlet process mixture over binary vectors.                          *)
(*                                                                         *)
(* Vectors are functions over 0..len-1, as the numpy arrays of the source  *)
(* are indexed.  Arrays live in a heap of references, so that copying and  *)
(* aliasing are distinguishable.  A real-valued weight is kept as an exact *)
(* fraction [num, den]; a log-domain weight is kept as the fraction it is  *)
(* the logarithm of (exp(betaln(a+1,b) - betaln(a,b)) = a/(a+b)).          *)
(* A random draw is a nondeterministic choice over the outcomes that have  *)
(* positive probability.                                                   *)
(***************************************************************************)
EXTENDS Integers, FiniteSets, Sequences, TLC

\* ---------------------------------------------------------------- bounds
MaxN == 3
Dim == 1
MaxSweeps == 1
MaxGamma == 1
MaxGridIdx == 0

\* ------------------------------------------------------ program constants
\* linspace(.1, 10, 1000): the number of grid points
GridPoints == 1000
\* method_conf: beta=1
ParamBeta == 1

VARIABLES pc, n, data, heap, state, s, c, i, sweeps, call, log, rng

vars == <<pc, n, data, heap, state, s, c, i, sweeps, call, log, rng>>

\* ------------------------------------------------------------ numpy helpers
Range(v) == {v[j] : j \in DOMAIN v}

len(v) == Cardinality(DOMAIN v)

\* numpy.zeros(m, int)
zeros(m) == [j \in 0..(m - 1) |-> 0]

\* numpy.unique: the distinct values, ascending
unique(v) ==
    LET S == Range(v)
    IN  [j \in 0..(Cardinality(S) - 1) |->
            CHOOSE x \in S : Cardinality({y \in S : y < x}) = j]

\* numpy.delete(v, k)
delete(v, k) == [j \in 0..(len(v) - 2) |-> IF j < k THEN v[j] ELSE v[j + 1]]

\* v[:k]
prefix(v, k) == [j \in 0..(k - 1) |-> v[j]]

\* sum(v == x)
count_eq(v, x) == Cardinality({j \in DOMAIN v : v[j] = x})

NumLabels(v) == Cardinality(Range(v))

MaxOf(S) == CHOOSE x \in S : \A y \in S : y <= x

\* ---------------------------------------------------------------- fractions
Frac(a, b) == [num |-> a, den |-> b]

FracEq(a, b) == a.num * b.den = b.num * a.den

RECURSIVE ProdTo(_, _)
ProdTo(f, d) == IF d = 0 THEN 1 ELSE f[d - 1] * ProdTo(f, d - 1)

RECURSIVE Pow2(_)
Pow2(d) == IF d = 0 THEN 1 ELSE 2 * Pow2(d - 1)

\* the element of a one-element set; Only({e(x) : x \in {v}}) is e(v) with v
\* evaluated once
Only(S) == CHOOSE x \in S : TRUE

\* ----------------------------------------------------------------- the heap
NoRef == 0

NewRef(h) == CHOOSE r \in 1..(Cardinality(DOMAIN h) + 1) : r \notin DOMAIN h

Alloc(h, r, v) == [x \in DOMAIN h \cup {r} |-> IF x = r THEN v ELSE h[x]]

Keep(h, refs) == [x \in DOMAIN h \cap refs |-> h[x]]

NoCall == [op |-> "none"]

NoLog == [alpha_calls |-> 0]

\* the draws the call in progress (or the call that last returned) has taken
\* from the random source: rng.gamma results and discrete_sample results
NoDraws == [gamma |-> <<>>, categorical |-> <<>>]

\* helpers.discrete_sample: the indices the draw can return, those of positive
\* weight (in log mode, of positive exponentiated weight)
discrete_sample(p) == {j \in DOMAIN p : p[j].num > 0}

\* the slip c[i:] = v
setitem_tail(v, k, x) == [j \in DOMAIN v |-> IF j >= k THEN x ELSE v[j]]

\* c[i] = v
setitem(v, k, x) == [v EXCEPT ![k] = x]

\* ------------------------------------------------------------ sample_latent
\* the slip range(n)
LatentFirstIndex_zero == 1 - 1

\* range(1, n): the first index the forward sampler draws
LatentFirstIndex == 1

\* the slip zeros(len(cluster_ids) + 2)
latent_p_len_plus(cluster_ids) == len(cluster_ids) + 2

\* p = zeros(len(cluster_ids) + 1)
latent_p_len(cluster_ids) == len(cluster_ids) + 1

\* the weight vector of one step of sample_latent
latent_p(c_before, alpha) ==
    LET cluster_ids == unique(c_before)
        m == latent_p_len(cluster_ids)
    IN  [j \in 0..(m - 1) |->
            IF j = m - 1 THEN alpha
            ELSE IF j < len(cluster_ids)
                 THEN Frac(count_eq(cluster_ids, cluster_ids[j]), 1)
                 ELSE Frac(0, 1)]

Init ==
    /\ pc = "start"
    /\ n \in 1..MaxN
    /\ data = <<>>
    /\ heap = <<>>
    /\ state = [alpha |-> Frac(0, 1), c |-> NoRef]
    /\ s = [alpha |-> Frac(0, 1), c |-> NoRef]
    /\ c = NoRef
    /\ i = 0
    /\ sweeps = 0
    /\ call = NoCall
    /\ log = NoLog
    /\ rng = NoDraws

\* start_state -> sample_latent, up to the loop: s.alpha = rng.gamma(...),
\* c = zeros(n, int)
SampleLatentBegin ==
    /\ pc = "start"
    /\ \E g \in 1..MaxGamma :
          /\ s' = [alpha |-> Frac(g, 1), c |-> NoRef]
          /\ rng' = [NoDraws EXCEPT !.gamma = <<Frac(g, 1)>>]
    /\ LET r == NewRef(heap)
       IN  /\ heap' = Alloc(heap, r, zeros(n))
           /\ c' = r
    /\ i' = LatentFirstIndex
    /\ pc' = "latent"
    /\ UNCHANGED <<n, data, state, sweeps, call, log>>

\* one iteration of the loop of sample_latent
SampleLatentStep ==
    /\ pc = "latent"
    /\ i < n
    /\ LET c_before == prefix(heap[c], i)
           p == latent_p(c_before, s.alpha)
       IN  \E idx \in discrete_sample(p) :
              /\ heap' = [heap EXCEPT ![c] = setitem(heap[c], i, idx)]
              /\ call' = [op |-> "latent", i |-> i, c |-> c_before,
                          cluster_ids |-> unique(c_before), p |-> p,
                          idx |-> idx]
              /\ rng' = [rng EXCEPT !.categorical = Append(@, idx)]
    /\ i' = i + 1
    /\ UNCHANGED <<pc, n, data, state, s, c, sweeps, log>>

\* s.c = c; return s  (start_state returns it as the chain's first state)
SampleLatentReturn ==
    /\ pc = "latent"
    /\ i >= n
    /\ s' = [s EXCEPT !.c = c]
    /\ state' = [s EXCEPT !.c = c]
    /\ pc' = "idle"
    /\ UNCHANGED <<n, data, heap, c, i, sweeps, call, log, rng>>

\* ------------------------------------------------------------- sample_alpha
\* grid = linspace(.1, 10, 1000); grid[k] = .1 + k * 9.9 / 999
grid(k) == Frac(999 + 99 * k, 9990)

\* n_clusters = len(unique(state.c))
alpha_n_clusters(st, h) == len(unique(h[st.c]))

\* every grid point has a finite log-density, so discrete_sample may return any
\* index k of the grid; the value returned is grid[k]
sample_alpha(st, h, k) == grid(k)

\* ----------------------------------------------------------------- sample_c
\* cluster_ids[-1] of an empty array
IndexError == -1

\* c_in = (c == cluster_id); c_in[i] = False
c_in(cv, k, cluster_id) == {m \in DOMAIN cv : cv[m] = cluster_id} \ {k}

\* sum(data[c_in] == True, 0), per feature dimension
n_true(dat, rows) == [d \in 0..(Dim - 1) |-> Cardinality({m \in rows : dat[m][d]})]

\* sum(data[c_in] == False, 0), per feature dimension
n_false(dat, rows) == [d \in 0..(Dim - 1) |-> Cardinality({m \in rows : ~dat[m][d]})]

\* a scalar beta broadcast over the feature dimensions
broadcast(beta) == [d \in 0..(Dim - 1) |-> beta]

VecAdd(u, v) == [d \in 0..(Dim - 1) |-> u[d] + v[d]]

\* exp(sum(betaln(a + x, b + (1 - x)) - betaln(a, b))) as a fraction:
\* per feature a/(a+b) when x is true, b/(a+b) when it is false
predictive(a, b, x) ==
    Frac(ProdTo([d \in 0..(Dim - 1) |-> IF x[d] THEN a[d] ELSE b[d]], Dim),
         ProdTo([d \in 0..(Dim - 1) |-> a[d] + b[d]], Dim))

\* one iteration of the loop over cluster_ids, entered with the local variable
\* beta holding the vector beta: the alpha and beta the iteration binds and
\* the weight p[j] it stores
cluster_iter(cluster_id, k, cv, dat, beta) ==
    Only({[alpha |-> ab.alpha, beta |-> ab.beta,
           p |-> Only({Frac(count_eq(delete(cv, k), cluster_id) * lh.num, lh.den) :
                        lh \in {predictive(ab.alpha, ab.beta, dat[k])}})] :
          ab \in {[alpha |-> VecAdd(beta, n_true(dat, rows)),
                   beta |-> VecAdd(beta, n_false(dat, rows))] :
                  rows \in {c_in(cv, k, cluster_id)}}})

\* the loop over cluster_ids from iteration j on: one record per iteration;
\* iteration j + 1 is entered with the beta iteration j bound
RECURSIVE cluster_loop(_, _, _, _, _, _)
cluster_loop(j, cluster_ids, k, cv, dat, beta) ==
    IF j >= len(cluster_ids) THEN <<>>
    ELSE Only({<<it>> \o cluster_loop(j + 1, cluster_ids, k, cv, dat, it.beta) :
                it \in {cluster_iter(cluster_ids[j], k, cv, dat, beta)}})

\* the local variable beta when the loop is left
beta_after_loop(iters, beta) ==
    IF Len(iters) = 0 THEN broadcast(beta) ELSE iters[Len(iters)].beta

\* prior = log(dp_alpha); lh = sum(betaln(beta + x, beta - x + 1) - betaln(beta, beta))
new_cluster_p(dp_alpha, beta, x) ==
    Only({Frac(dp_alpha.num * lh.num, dp_alpha.den * lh.den) :
           lh \in {predictive(beta, beta, x)}})

\* lines 111-113, after the loop: the record of what sample_c computed
after_loop(cluster_ids, iters, dp_alpha, beta, x) ==
    Only({[cluster_ids |-> cluster_ids,
           iters |-> iters,
           new_beta |-> nb,
           p |-> [j \in 0..len(cluster_ids) |->
                     IF j < len(cluster_ids) THEN iters[j + 1].p ELSE pnew]] :
          nb \in {beta_after_loop(iters, beta)},
          pnew \in {new_cluster_p(dp_alpha, beta_after_loop(iters, beta), x)}})

\* sample_c up to the draw: cluster_ids, the iterations of the loop, the beta
\* the new-cluster term reads and the weight vector p (exponentiated)
sample_c_weights(k, cv, dat, dp_alpha, beta) ==
    Only({after_loop(ids, iters, dp_alpha, beta, dat[k]) :
           ids \in {unique(delete(cv, k))},
           iters \in {cluster_loop(0, unique(delete(cv, k)), k, cv, dat, broadcast(beta))}})

\* if idx == len(p) - 1: cluster_ids[-1] + 1 else: cluster_ids[idx]
c_return(cluster_ids, idx, plen) ==
    IF idx = plen - 1
    THEN IF len(cluster_ids) = 0 THEN IndexError
         ELSE cluster_ids[len(cluster_ids) - 1] + 1
    ELSE cluster_ids[idx]

\* --------------------------------------------------------------- transition
\* the slip c = state.c: the same array
copy_alias(h, r) == [heap |-> h, ref |-> r]

\* c = copy(state.c): a new array holding the same values
copy(h, r) ==
    LET r2 == NewRef(h)
    IN  [heap |-> Alloc(h, r2, h[r]), ref |-> r2]

\* the slip state.alpha
sweep_alpha_old(st, s_new) == st.alpha

\* the dp_alpha argument of sample_c: s.alpha
sweep_alpha(st, s_new) == s_new.alpha

\* the observation matrices: any n x Dim boolean matrix
AnyData(m) == [0..(m - 1) -> [0..(Dim - 1) -> BOOLEAN]]

\* the observation matrices all of whose cells hold the same value.  The
\* labels a sweep can produce do not depend on the data (AllWeightsPositive),
\* so the claims about labels are checked with this family; the claims about
\* weights are checked with AnyData.
ConstantData(m) == {[r \in 0..(m - 1) |-> [d \in 0..(Dim - 1) |-> b]] : b \in BOOLEAN}

\* transition, up to the loop: s.alpha = sample_alpha(...); c = copy(state.c).
\* The data argument is drawn from D.
TransitionBegin(D) ==
    /\ pc = "idle"
    /\ sweeps < MaxSweeps
    /\ data' \in D
    /\ \E k \in 0..MaxGridIdx :
          /\ k < GridPoints
          /\ s' = [alpha |-> sample_alpha(state, heap, k), c |-> NoRef]
          /\ log' = [alpha_calls |-> 1,
                     n_clusters |-> alpha_n_clusters(state, heap),
                     input |-> [alpha |-> state.alpha, c |-> heap[state.c]],
                     written |-> <<>>]
          /\ rng' = [NoDraws EXCEPT !.categorical = <<k>>]
    /\ LET cp == copy(heap, state.c)
       IN  /\ heap' = cp.heap
           /\ c' = cp.ref
    /\ i' = 0
    /\ sweeps' = sweeps + 1
    /\ call' = NoCall
    /\ pc' = "sweep"
    /\ UNCHANGED <<n, state>>

\* one iteration of the loop of transition:
\* c[i] = self.sample_c(i, c, params, data, s.alpha, params['beta'], rng)
SampleCStep ==
    /\ pc = "sweep"
    /\ i < len(data)
    /\ LET cv == heap[c]
           dp_alpha == sweep_alpha(state, s)
       IN  \E w \in {sample_c_weights(i, cv, data, dp_alpha, ParamBeta)} :
           \E idx \in discrete_sample(w.p) :
              LET ret == c_return(w.cluster_ids, idx, len(w.p))
              IN  /\ call' = [op |-> "sample_c", i |-> i, c |-> cv,
                              dp_alpha |-> dp_alpha,
                              cluster_ids |-> w.cluster_ids,
                              iters |-> w.iters,
                              new_beta |-> w.new_beta,
                              p |-> w.p, idx |-> idx, ret |-> ret]
                  /\ IF ret = IndexError
                     THEN /\ pc' = "failed"
                          /\ UNCHANGED <<heap, i, log>>
                     ELSE /\ heap' = [heap EXCEPT ![c] = setitem(cv, i, ret)]
                          /\ i' = i + 1
                          /\ log' = [log EXCEPT !.written = Append(@, ret)]
                          /\ pc' = "sweep"
                  /\ rng' = [rng EXCEPT !.categorical = Append(@, idx)]
    /\ UNCHANGED <<n, data, state, s, c, sweeps>>

\* s.c = c; return s
TransitionReturn ==
    /\ pc = "sweep"
    /\ i >= len(data)
    /\ s' = [s EXCEPT !.c = c]
    /\ pc' = "done"
    /\ UNCHANGED <<n, data, heap, state, c, i, sweeps, call, log, rng>>

\* the driver takes the returned state as the input of the next sweep and
\* drops the previous one
NextSweep ==
    /\ pc = "done"
    /\ state' = s
    /\ heap' = Keep(heap, {s.c})
    /\ c' = NoRef
    /\ call' = NoCall
    /\ log' = NoLog
    /\ data' = <<>>
    /\ i' = 0
    /\ rng' = NoDraws
    /\ pc' = "idle"
    /\ UNCHANGED <<n, s, sweeps>>

Next ==
    \/ SampleLatentBegin
    \/ SampleLatentStep
    \/ SampleLatentReturn
    \/ TransitionBegin(ConstantData(n))
    \/ SampleCStep
    \/ TransitionReturn
    \/ NextSweep

Spec == Init /\ [][Next]_vars

NextAnyData ==
    \/ SampleLatentBegin
    \/ SampleLatentStep
    \/ SampleLatentReturn
    \/ TransitionBegin(AnyData(n))
    \/ SampleCStep
    \/ TransitionReturn
    \/ NextSweep

SpecAnyData == Init /\ [][NextAnyData]_vars

\* ------------------------------------------------------------------ claims
InCall == pc \in {"sweep", "done", "failed"}

Updated == call.op = "sample_c"

Returned == Updated /\ call.ret # IndexError

IsShape(v) == len(v) = n /\ DOMAIN v = 0..(n - 1) /\ \A j \in DOMAIN v : v[j] \in Nat

\* every weight handed to discrete_sample is positive, whatever the data: the
\* labels a draw can return do not depend on the observation matrix
AllWeightsPositive ==
    call.op \in {"latent", "sample_c"} => \A j \in DOMAIN call.p : call.p[j].num > 0 /\ call.p[j].den > 0

\* C1: for every n >= 1, start_state and every transition call return a state
\* with len(c) = n and every c[i] a non-negative integer, and never fail.
C1_EveryCallReturnsAShapedState ==
    /\ pc # "failed"
    /\ pc \in {"idle", "sweep", "done"} => IsShape(heap[state.c])
    /\ pc = "done" => IsShape(heap[s.c])

\* C2: writing the label one sample_c call returned into c[i] changes the
\* number of distinct labels of c by -1, 0 or +1.
C2_LabelCountChangesByAtMostOne ==
    (Updated /\ InCall) =>
        /\ heap[c] = IF call.ret = IndexError THEN call.c
                     ELSE [call.c EXCEPT ![call.i] = call.ret]
        /\ NumLabels(heap[c]) - NumLabels(call.c) \in {-1, 0, 1}

C2_Witness ==
    /\ Returned
    /\ pc = "sweep"
    /\ NumLabels(heap[c]) = NumLabels(call.c) + 1

\* C3: in one transition call the concentration update runs once, first, on
\* the input state's partition; then the assignment updates run for
\* i = 0, 1, ..., n-1 in this order, each given the new alpha and a label
\* vector whose indices below i hold the labels written in this sweep and
\* whose indices from i on hold the input state's labels.
C3_SweepOrder ==
    InCall =>
        /\ log.alpha_calls = 1
        /\ log.n_clusters = NumLabels(log.input.c)
        /\ s.alpha = grid(rng.categorical[1])
        /\ Len(rng.categorical) = 1 => (call.op = "none" /\ log.written = <<>> /\ i = 0)
        /\ Updated =>
              /\ call.i = Len(rng.categorical) - 2
              /\ Len(log.written) = IF call.ret = IndexError THEN call.i ELSE call.i + 1
              /\ \A j \in 0..(call.i - 1) : call.c[j] = log.written[j + 1]
              /\ \A j \in call.i..(n - 1) : call.c[j] = log.input.c[j]
              /\ call.dp_alpha = s.alpha
        /\ pc = "done" => (Len(log.written) = n /\ Len(rng.categorical) = n + 1)

C3_Witness ==
    /\ pc = "sweep"
    /\ Updated
    /\ call.i = 2
    /\ log.written[1] # log.input.c[0]
    /\ log.written[2] # log.input.c[1]
    /\ call.dp_alpha # state.alpha

\* the label vector after the update of index j, as a function of the vector
\* read, the data, alpha, the hyperparameter beta and the draw idx
update_fn(j, cv, dat, alpha, beta, idx) ==
    Only({[cv EXCEPT ![j] = c_return(w.cluster_ids, idx, len(w.p))] :
           w \in {sample_c_weights(j, cv, dat, alpha, beta)}})

\* the label vector a sweep returns, as a function of the input labels, the
\* data, alpha, beta and the draws <<grid index, idx_0, ..., idx_(n-1)>>
RECURSIVE sweep_fn(_, _, _, _, _, _)
sweep_fn(j, cv, dat, alpha, beta, draws) ==
    IF j >= len(dat) THEN cv
    ELSE Only({sweep_fn(j + 1, cv2, dat, alpha, beta, draws) :
                cv2 \in {update_fn(j, cv, dat, alpha, beta, draws[j + 2])}})

\* the state transition returns, as a function of its arguments and the draws
transition_fn(inp, dat, beta, draws) ==
    [alpha |-> grid(draws[1]),
     c |-> sweep_fn(0, inp.c, dat, grid(draws[1]), beta, draws)]

\* C4: the state transition returns is determined by the input state, the
\* hyperparameters, the data and the draws (the new alpha by the first draw,
\* the labels after each update by the labels before it, the data, the new
\* alpha, beta and that update's draw), it is a fresh State, and the input
\* state's alpha and c are the same after the call as before.
C4_PureAndFresh ==
    /\ InCall => (state.alpha = log.input.alpha /\ heap[state.c] = log.input.c)
    /\ InCall => s.alpha = grid(rng.categorical[1])
    /\ (InCall /\ Returned) =>
          heap[c] = update_fn(call.i, call.c, data, grid(rng.categorical[1]),
                              ParamBeta, rng.categorical[call.i + 2])
    /\ pc = "done" =>
          /\ s.c # state.c
          /\ s.c = c
          /\ call.i = n - 1

\* C4 for the whole call at once: the returned State is transition_fn of the
\* input state, the data, beta and the draws
ReturnedStateIsTransitionFn ==
    pc = "done" =>
        [alpha |-> s.alpha, c |-> heap[s.c]]
            = transition_fn(log.input, data, ParamBeta, rng.categorical)

C4_Witness ==
    /\ pc = "done"
    /\ n >= 2
    /\ \A j \in 0..(n - 1) : heap[s.c][j] # heap[state.c][j]
    /\ s.alpha # state.alpha

LatentReturned == pc = "idle" /\ sweeps = 0

\* C5: sample_latent gives observation 0 the label 0; for n = 1 it returns
\* c = [0] and the one gamma draw as alpha, and takes no categorical draw.
C5_ForwardSamplerFirstLabel ==
    LatentReturned =>
        /\ heap[state.c][0] = 0
        /\ rng.gamma = <<state.alpha>>
        /\ n = 1 => (heap[state.c] = zeros(1) /\ rng.categorical = <<>>)

C5_Witness == LatentReturned /\ n = 1 /\ Len(rng.gamma) = 1

NewClusterWeightValue ==
    Updated =>
        FracEq(call.p[len(call.cluster_ids)],
               Frac(call.dp_alpha.num, call.dp_alpha.den * Pow2(Dim)))

\* C7: for each label l of the other observations, sample_c uses per feature
\* the Beta parameters (beta + number of other members of l with the feature
\* true, beta + number of other members of l with the feature false).
C7_ClusterBetaParameters ==
    Updated =>
        \A j \in 0..(len(call.cluster_ids) - 1) :
            LET rows == {m \in 0..(n - 1) : m # call.i /\ call.c[m] = call.cluster_ids[j]}
            IN  /\ call.iters[j + 1].alpha
                      = [d \in 0..(Dim - 1) |->
                            ParamBeta + Cardinality({m \in rows : data[m][d]})]
                /\ call.iters[j + 1].beta
                      = [d \in 0..(Dim - 1) |->
                            ParamBeta + Cardinality({m \in rows : ~data[m][d]})]

\* C8: at each index i >= 1 sample_latent hands discrete_sample one weight
\* per distinct label of c[0..i-1], the label's occupancy count, followed by
\* alpha.
C8_LatentWeightsAreOccupancyCounts ==
    call.op = "latent" =>
        /\ len(call.p) = NumLabels(call.c) + 1
        /\ \A j \in 0..(len(call.cluster_ids) - 1) :
              call.p[j] = Frac(count_eq(call.c, call.cluster_ids[j]), 1)
        /\ call.p[len(call.p) - 1] = s.alpha

\* C9: sample_c returns the label of the entry drawn, held by an observation
\* other than i, or for the last entry (the largest label present in c) + 1,
\* which is not a label present in c.
C9_ReturnedLabel ==
    Updated =>
        IF call.idx < len(call.cluster_ids)
        THEN /\ call.ret = call.cluster_ids[call.idx]
             /\ \E m \in 0..(n - 1) : m # call.i /\ call.c[m] = call.ret
        ELSE /\ call.ret = MaxOf(Range(call.c)) + 1
             /\ call.ret \notin Range(call.c)

\* the claim of C9 for the updates that return a label
C9_ReturnedLabelWhenReturned == Returned => C9_ReturnedLabel

\* C10: in sample_latent the labels of c[0..i] are contiguous after every
\* step: c[0] = 0, c[m] <= max(c[0..m-1]) + 1, the labels in use are
\* 0..k-1, and the index drawn is the label it denotes (j < k the existing
\* label j, k the new label max + 1).
C10_LatentLabelsContiguous ==
    (pc = "latent" \/ LatentReturned) =>
        LET v == heap[c]
            filled == IF i < n THEN i ELSE n
        IN  /\ v[0] = 0
            /\ \A m \in 1..(filled - 1) : v[m] <= MaxOf(Range(prefix(v, m))) + 1
            /\ Range(prefix(v, filled)) = 0..(NumLabels(prefix(v, filled)) - 1)
            /\ call.op = "latent" =>
                  /\ \A j \in DOMAIN call.cluster_ids : call.cluster_ids[j] = j
                  /\ call.idx <= len(call.cluster_ids)
                  /\ v[call.i] = call.idx
                  /\ call.idx = len(call.cluster_ids)
                        => call.idx = MaxOf(Range(call.c)) + 1

C10_Witness ==
    /\ pc = "latent"
    /\ call.op = "latent"
    /\ call.i = 2
    /\ call.idx = 2
    /\ heap[c][1] = 1
====
